---- MODULE Spec2Model ----
(***************************************************************************)
(* A model of package tiff (tiff/tiff.go): the two container decoders      *)
(* Decode and DecodeFile, and the directory decoder DecodeDir, run step by *)
(* step over byte streams.  A stream is a sequence of bytes; the decoders  *)
(* read it with the byte order its marker declares.  The streams are       *)
(* serialised from small TIFF images (Img), truncated at every length and  *)
(* read through sources that fail at a chosen byte.                        *)
(***************************************************************************)
EXTENDS Integers, Sequences, FiniteSets, TLC

\* ------------------------------------------------------------------ bounds

\* Directories in an image.
MaxDirs == 2
\* Tag entries in a directory of an image.
MaxTags == 2
\* Directories a call may collect in t.Dirs before the model stops following it.
MaxIter == 4

\* ---------------------------------------------------------------- constants

\* The "special tiff marker".
Magic == 42

Nil == "nil"
NoErr == "nil"
NoFail == 0 - 1

ErrReadData == "tiff: could not read data"
ErrByteOrder == "tiff: could not read tiff byte order"
ErrReadMagic == "tiff: could not read special tiff marker"
ErrMagic == "tiff: could not find special tiff marker"
ErrReadFirst == "tiff: could not read offset of 1st IFD"
ErrFirst == "tiff: could not read offset to first IFD"
ErrSeek == "tiff: seek to IFD failed"
ErrSeekEOF == "tiff: seek offset after EOF"
ErrRecursive == "tiff: recursive IFD"
ErrTagCount == "tiff: failed to read IFD tag count"
ErrNextOffset == "tiff: falied to read offset to next IFD"
ErrTag == "tiff: tag read failed"
ErrTagValue == "tiff: tag value read failed"

\* ------------------------------------------------------------ byte orders

\* binary.LittleEndian / binary.BigEndian reading a 2-byte and a 4-byte field.
U16(b, o) ==
    IF o = "LE" THEN b[1] + 256 * b[2] ELSE 256 * b[1] + b[2]

U32(b, o) ==
    IF o = "LE" THEN b[1] + 256 * b[2] + 65536 * b[3] + 16777216 * b[4]
    ELSE 16777216 * b[1] + 65536 * b[2] + 256 * b[3] + b[4]

\* The value of a 2-byte field read into an int16.
Int16(u) == IF u >= 32768 THEN u - 65536 ELSE u

\* The bytes a writer of the format stores for a 2-byte and a 4-byte field.
EncU16(v, o) ==
    IF o = "LE" THEN <<v % 256, v \div 256>> ELSE <<v \div 256, v % 256>>

EncU32(v, o) ==
    IF o = "LE"
    THEN <<v % 256, (v \div 256) % 256, (v \div 65536) % 256, v \div 16777216>>
    ELSE <<v \div 16777216, (v \div 65536) % 256, (v \div 256) % 256, v % 256>>

\* The marker bytes of a byte order: "II" and "MM".
MarkerOf(o) == IF o = "LE" THEN <<73, 73>> ELSE <<77, 77>>

\* A variant that takes every marker but "II" for big-endian.
ByteOrderDefaultsBig(bo) ==
    IF bo = <<73, 73>> THEN "LE" ELSE "BE"

\* The byte order a marker selects, Nil for any other two bytes.
ByteOrderOf(bo) ==
    IF bo = <<73, 73>> THEN "LE"
    ELSE IF bo = <<77, 77>> THEN "BE"
    ELSE Nil

Min(a, b) == IF a < b THEN a ELSE b

\* n bytes of the sequence b from 0-based position p; fewer when b ends before.
SeqBytes(b, p, n) ==
    IF p >= Len(b) THEN <<>> ELSE SubSeq(b, p + 1, Min(p + n, Len(b)))

\* The i-th byte of the source of a directory of c entries, too many to write
\* out: the tag count, c inline shorts (entry j is tag 256 with value j % 128),
\* the next-directory offset nx.
ManyByte(c, nx, o, i) ==
    IF i <= 2 THEN EncU16(c, o)[i]
    ELSE IF i > 2 + 12 * c THEN EncU32(nx, o)[i - 2 - 12 * c]
    ELSE (EncU16(256, o) \o EncU16(3, o) \o EncU32(1, o)
            \o EncU16((((i - 3) \div 12) + 1) % 128, o) \o <<0, 0>>)[((i - 3) % 12) + 1]

\* A buffer (the bytes.Reader's bytes): its bytes written out, or the
\* parameters of the many-entry source above.
Lit(b) == [many |-> FALSE, bytes |-> b]
Many(c, nx, o) == [many |-> TRUE, c |-> c, nx |-> nx, o |-> o]

BufLen(b) == IF b.many THEN 2 + 12 * b.c + 4 ELSE Len(b.bytes)

\* n bytes of buffer b from 0-based position p; fewer when b ends before.
Bytes(b, p, n) ==
    IF b.many
    THEN [i \in 1..(Min(p + n, BufLen(b)) - p) |-> ManyByte(b.c, b.nx, b.o, p + i)]
    ELSE SeqBytes(b.bytes, p, n)

RECURSIVE Concat(_)
Concat(ss) == IF ss = <<>> THEN <<>> ELSE Head(ss) \o Concat(Tail(ss))

RECURSIVE Sum(_)
Sum(s) == IF s = <<>> THEN 0 ELSE Head(s) + Sum(Tail(s))

\* -------------------------------------------------------------------- tags

\* Bytes of one value of a TIFF type: 1 byte, 2 ascii, 3 short, 4 long,
\* 5 rational, 6 sbyte, 7 undefined, 8 sshort, 9 slong, 10 srational, 11 float,
\* 12 double.  A type code outside 1..12 is kept as opaque bytes.
TypeSize(typ) ==
    CASE typ \in {3, 8} -> 2
      [] typ \in {4, 9, 11} -> 4
      [] typ \in {5, 10, 12} -> 8
      [] OTHER -> 1

\* count * size as a uint32, computed on 16-bit halves; a product of 2^30 or more
\* is reported as 2^30, which is larger than 4 and than every buffer here.
ValLen(typ, count) ==
    LET s == TypeSize(typ)
        lo == s * (count % 65536)
        hi == ((s * (count \div 65536)) + (lo \div 65536)) % 65536
    IN  IF hi >= 16384 THEN 2 ^ 30 ELSE (hi * 65536) + (lo % 65536)

\* The i-th group of n bytes of raw.
Group(raw, n, i) == SubSeq(raw, n * (i - 1) + 1, n * i)

\* The typed values of a tag's bytes under byte order o.  Values of 4 bytes stay
\* below 2^31 in every stream of this model, where their signed and unsigned
\* readings agree; floats are kept as their bit patterns.
ConvertVals(typ, raw, o) ==
    CASE typ = 3 -> [i \in 1..(Len(raw) \div 2) |-> U16(Group(raw, 2, i), o)]
      [] typ = 8 -> [i \in 1..(Len(raw) \div 2) |-> Int16(U16(Group(raw, 2, i), o))]
      [] typ \in {4, 9, 11} ->
            [i \in 1..(Len(raw) \div 4) |-> U32(Group(raw, 4, i), o)]
      [] typ \in {5, 10, 12} ->
            [i \in 1..(Len(raw) \div 8) |->
                <<U32(SubSeq(Group(raw, 8, i), 1, 4), o),
                  U32(SubSeq(Group(raw, 8, i), 5, 8), o)>>]
      [] typ = 6 -> [i \in 1..Len(raw) |-> IF raw[i] >= 128 THEN raw[i] - 256 ELSE raw[i]]
      [] OTHER -> raw

\* The tag returned with an error.
NilTag == [Id |-> 0, Type |-> 0, Count |-> 0, Vals |-> <<>>]

\* DecodeTag(r, order, position_offset) on buffer b with the cursor at p: the
\* 12-byte entry (id, type, count, value slot); a value longer than 4 bytes is
\* read at (slot - base), an unsigned subtraction that wraps for slot < base to
\* a position beyond every buffer.
DecodeTag(b, p, o, base) ==
    LET e == Bytes(b, p, 12) IN
    IF Len(e) < 12
    THEN [err |-> ErrTag, tag |-> NilTag, pos |-> p + Len(e)]
    ELSE
      LET id == U16(SubSeq(e, 1, 2), o)
          typ == U16(SubSeq(e, 3, 4), o)
          cnt == U32(SubSeq(e, 5, 8), o)
          slot == SubSeq(e, 9, 12)
          vl == ValLen(typ, cnt)
          off == U32(slot, o)
      IN  IF vl <= 4
          THEN [err |-> NoErr, pos |-> p + 12,
                tag |-> [Id |-> id, Type |-> typ, Count |-> cnt,
                         Vals |-> ConvertVals(typ, SubSeq(slot, 1, vl), o)]]
          ELSE IF off < base \/ (off - base) + vl > BufLen(b)
          THEN [err |-> ErrTagValue, tag |-> NilTag, pos |-> p + 12]
          ELSE [err |-> NoErr, pos |-> p + 12,
                tag |-> [Id |-> id, Type |-> typ, Count |-> cnt,
                         Vals |-> ConvertVals(typ, Bytes(b, off - base, vl), o)]]

\* ------------------------------------------------------------------ images

\* The tags the images are made of: an inline short (ImageWidth 100), three
\* shorts stored out of line (BitsPerSample), a rational stored out of line
\* (XResolution 72/1).
TShort == [Id |-> 256, Type |-> 3, Count |-> 1, Vals |-> <<100>>]
TShorts == [Id |-> 258, Type |-> 3, Count |-> 3, Vals |-> <<8, 8, 264>>]
TRational == [Id |-> 282, Type |-> 5, Count |-> 1, Vals |-> <<<<72, 1>>>>]
Pool == <<TShort, TShorts, TRational>>

\* The bytes of a tag's values as a writer stores them.
EncVals(t, o) ==
    CASE t.Type = 3 -> Concat([i \in 1..Len(t.Vals) |-> EncU16(t.Vals[i], o)])
      [] t.Type = 4 -> Concat([i \in 1..Len(t.Vals) |-> EncU32(t.Vals[i], o)])
      [] t.Type = 5 ->
            Concat([i \in 1..Len(t.Vals) |->
                        EncU32(t.Vals[i][1], o) \o EncU32(t.Vals[i][2], o)])
      [] OTHER -> t.Vals

Pad4(b) == b \o [i \in 1..(4 - Len(b)) |-> 0]

\* Bytes a tag stores outside its entry: none when the value fits the slot.
BlobSize(t) ==
    LET n == TypeSize(t.Type) * t.Count IN IF n > 4 THEN n ELSE 0

DirSize(d) == 2 + 12 * Len(d.tags) + 4
DirBlobs(d) == Sum([j \in 1..Len(d.tags) |-> BlobSize(d.tags[j])])
AllDirSize(img) == Sum([k \in 1..Len(img.dirs) |-> DirSize(img.dirs[k])])
AllBlobs(img) == Sum([k \in 1..Len(img.dirs) |-> DirBlobs(img.dirs[k])])
ImgLen(img) == 8 + AllDirSize(img) + AllBlobs(img)

\* Where the directories and the out-of-line values start: the values lie before
\* all directories (place "before") or after them.
DirStart(img) == 8 + (IF img.place = "before" THEN AllBlobs(img) ELSE 0)
BlobStart(img) == 8 + (IF img.place = "before" THEN 0 ELSE AllDirSize(img))

DirOff(img, k) ==
    DirStart(img) + Sum([i \in 1..(k - 1) |-> DirSize(img.dirs[i])])

BlobOff(img, k, j) ==
    BlobStart(img) + Sum([i \in 1..(k - 1) |-> DirBlobs(img.dirs[i])])
                   + Sum([i \in 1..(j - 1) |-> BlobSize(img.dirs[k].tags[i])])

\* The offset a link holds: 0 ends the chain, k is directory k, and anything
\* larger is the end of the stream.
TargetOff(img, t) ==
    IF t = 0 THEN 0
    ELSE IF t <= Len(img.dirs) THEN DirOff(img, t)
    ELSE ImgLen(img)

EncTag(img, k, j) ==
    LET t == img.dirs[k].tags[j] IN
    EncU16(t.Id, img.order) \o EncU16(t.Type, img.order)
        \o EncU32(t.Count, img.order)
        \o (IF BlobSize(t) = 0 THEN Pad4(EncVals(t, img.order))
            ELSE EncU32(BlobOff(img, k, j), img.order))

EncDir(img, k) ==
    LET d == img.dirs[k] IN
    EncU16(Len(d.tags), img.order)
        \o Concat([j \in 1..Len(d.tags) |-> EncTag(img, k, j)])
        \o EncU32(TargetOff(img, d.next), img.order)

EncBlobs(img) ==
    Concat([k \in 1..Len(img.dirs) |->
        Concat([j \in 1..Len(img.dirs[k].tags) |->
            IF BlobSize(img.dirs[k].tags[j]) = 0 THEN <<>>
            ELSE EncVals(img.dirs[k].tags[j], img.order)])])

EncHeader(img) ==
    img.marker \o EncU16(img.magic, img.order)
        \o EncU32(TargetOff(img, img.first), img.order)

\* The stream of an image: header, then directories and values.
Serialize(img) ==
    LET ds == Concat([k \in 1..Len(img.dirs) |-> EncDir(img, k)]) IN
    EncHeader(img)
        \o (IF img.place = "before" THEN EncBlobs(img) \o ds ELSE ds \o EncBlobs(img))

\* ------------------------------------------------------------------ inputs

\* Directory k of an image: its tag count and its tags rotate through the pool
\* with k, so that the directories of one image differ.
DirsOf(nd, n, s, nexts) ==
    [k \in 1..nd |->
        [tags |-> [j \in 1..((n + k - 1) % (MaxTags + 1)) |->
                        Pool[((s + k + j) % Len(Pool)) + 1]],
         next |-> nexts[k]]]

\* Well-headed images of nd directories: every link is 0, a directory of the
\* image (the linking one and earlier ones included) or the end of the stream.
ImgsOf(nd) ==
    { [order |-> o, marker |-> MarkerOf(o), magic |-> Magic, first |-> f,
       place |-> pl, dirs |-> DirsOf(nd, n, s, nx)] :
        o \in {"LE", "BE"}, pl \in {"before", "after"}, f \in 0..(nd + 1),
        n \in 0..MaxTags, s \in 1..Len(Pool), nx \in [1..nd -> 0..(nd + 1)] }

GoodImgs ==
    { i \in UNION { ImgsOf(nd) : nd \in 1..MaxDirs } :
        i.place = "before" => AllBlobs(i) > 0 }

\* Images of one directory that ends the chain, to be truncated and read through
\* failing sources.
OneDirImgs == { i \in GoodImgs : Len(i.dirs) = 1 /\ i.dirs[1].next = 0 }

\* Two bytes that are no byte-order marker.
BadMarkers == {<<73, 77>>, <<0, 42>>}

\* One image under every header: a wrong marker, a wrong magic number.
HeaderImgs ==
    { [order |-> o, marker |-> m, magic |-> g, first |-> 1, place |-> "after",
       dirs |-> DirsOf(1, 1, 1, <<0>>)] :
        o \in {"LE", "BE"}, m \in BadMarkers \cup {<<73, 73>>, <<77, 77>>},
        g \in {Magic, Magic + 1} }

\* An input: the image, the length its stream is cut to, the byte at which the
\* source fails (NoFail: never), whether a seek on the file fails.
Input(i, c, fa, sf) == [img |-> i, cut |-> c, failAt |-> fa, seekFail |-> sf]

Inputs ==
    { Input(i, ImgLen(i), NoFail, FALSE) : i \in GoodImgs }
    \cup UNION { { Input(i, c, NoFail, FALSE) : c \in 0..ImgLen(i) }
                 \cup { Input(i, ImgLen(i), fa, FALSE) : fa \in 0..ImgLen(i) }
                 \cup { Input(i, ImgLen(i), NoFail, TRUE) } :
                 i \in OneDirImgs \cup HeaderImgs }

\* ------------------------------------------------------------------- state

VARIABLES
    data,       \* the bytes of the stream
    img,        \* the image the stream was serialised from
    failAt,     \* the source fails when this byte is read (NoFail: never)
    seekFail,   \* f.Seek fails
    track,      \* t.Dirs is kept (the walk never reads it)
    calls,      \* the entry points still to be called on the stream
    entry,      \* the entry point running
    pc,         \* its position
    order,      \* t.Order
    fpos,       \* the read position of f
    buf,        \* the bytes.Reader's bytes
    pos,        \* the bytes.Reader's read position
    offset0,    \* DecodeFile's offset0
    base,       \* DecodeDir's position_offset
    offset,     \* Decode's offset, DecodeFile's next_offset
    prev,       \* prev
    dirs,       \* t.Dirs
    nTags,      \* DecodeDir's nTags
    n,          \* DecodeDir's n
    tags,       \* d.Tags
    dres,       \* what DecodeDir returns: d, offset, err
    ret,        \* what each entry point returned
    failed,     \* the first failure a step of the running call met
    ioErr       \* a read or a seek on the source has failed in the running call

input == <<data, img, failAt, seekFail, track>>
ctl == <<calls, entry>>
src == <<fpos, buf, pos>>
hdr == <<order, offset0>>
walk == <<offset, prev, dirs>>
dir == <<base, nTags, n, tags, dres>>
ghost == <<failed, ioErr>>
vars == <<input, ctl, pc, src, hdr, walk, dir, ret, ghost>>

Entries == {"Decode", "DecodeFile", "DecodeDir"}

NilTiff == [isNil |-> TRUE, Order |-> Nil, Dirs |-> <<>>]
NilDir == [isNil |-> TRUE, Tags |-> <<>>]
NotCalled == [done |-> FALSE, tiff |-> NilTiff, err |-> NoErr]
NoDirRes == [d |-> NilDir, offset |-> 0, err |-> NoErr]

\* A read of n bytes of the file at position p: the bytes read, whether all n
\* were read, whether the source failed.  The source fails when the read reaches
\* byte failAt.
FileRead(p, cnt) ==
    LET hit == failAt # NoFail /\ failAt >= p /\ failAt < p + cnt
        lim == IF hit THEN Min(failAt, Len(data)) ELSE Len(data)
        got == SeqBytes(SubSeq(data, 1, lim), p, cnt)
    IN  [bytes |-> got, ok |-> Len(got) = cnt, io |-> hit]

\* ioutil.ReadAll(f) at position p: everything up to the end of the file or to
\* the failing byte.
FileReadAll(p) ==
    LET hit == failAt # NoFail /\ failAt >= p
        lim == IF hit THEN Min(failAt, Len(data)) ELSE Len(data)
    IN  [bytes |-> SeqBytes(SubSeq(data, 1, lim), p, Len(data)), io |-> hit]

Init0(inp, cs, e, p, tr) ==
    /\ data = SubSeq(Serialize(inp.img), 1, inp.cut)
    /\ img = inp.img
    /\ failAt = inp.failAt
    /\ seekFail = inp.seekFail
    /\ track = tr
    /\ calls = cs
    /\ entry = e
    /\ pc = p
    /\ order = Nil
    /\ fpos = 0
    /\ buf = Lit(<<>>)
    /\ pos = 0
    /\ offset0 = 0
    /\ base = 0
    /\ offset = 0
    /\ prev = 0
    /\ dirs = <<>>
    /\ nTags = 0
    /\ n = 0
    /\ tags = <<>>
    /\ dres = NoDirRes
    /\ ret = [x \in Entries |-> NotCalled]
    /\ failed = NoErr
    /\ ioErr = FALSE

\* Both entry points are called on every stream, DecodeFile first.
Init == \E inp \in Inputs : Init0(inp, <<"DecodeFile", "Decode">>, Nil, "idle", TRUE)

\* The next call starts: fresh locals.
Call ==
    /\ pc = "idle"
    /\ calls # <<>>
    /\ entry' = Head(calls)
    /\ calls' = Tail(calls)
    /\ pc' = "start"
    /\ order' = Nil /\ offset0' = 0
    /\ fpos' = 0 /\ buf' = Lit(<<>>) /\ pos' = 0
    /\ offset' = 0 /\ prev' = 0 /\ dirs' = <<>>
    /\ base' = 0 /\ nTags' = 0 /\ n' = 0 /\ tags' = <<>> /\ dres' = NoDirRes
    /\ failed' = NoErr /\ ioErr' = FALSE
    /\ UNCHANGED <<input, ret>>

\* return t, e
Return(t, e) ==
    /\ ret' = [ret EXCEPT ![entry] = [done |-> TRUE, tiff |-> t, err |-> e]]
    /\ pc' = "idle"

\* A step has failed with e: the first failure of the call is kept.
Fail(e) == failed' = IF failed = NoErr THEN e ELSE failed

\* t.Dirs = append(t.Dirs, d)
Record(ds, d) == IF track THEN Append(ds, d) ELSE ds

\* ----------------------------------------------------------------- Decode

\* data, err := ioutil.ReadAll(r)
D_ReadAll ==
    /\ entry = "Decode" /\ pc = "start"
    /\ IF failAt # NoFail
       THEN /\ Return(NilTiff, ErrReadData)
            /\ Fail(ErrReadData) /\ ioErr' = TRUE
            /\ UNCHANGED src
       ELSE /\ buf' = Lit(data) /\ pos' = 0 /\ pc' = "d_bo"
            /\ UNCHANGED <<fpos, ret, ghost>>
    /\ UNCHANGED <<input, ctl, hdr, walk, dir>>

\* read byte order
D_ByteOrder ==
    /\ entry = "Decode" /\ pc = "d_bo"
    /\ LET bo == Bytes(buf, pos, 2) IN
       IF Len(bo) < 2 \/ ByteOrderOf(bo) = Nil
       THEN /\ Return(NilTiff, ErrByteOrder)
            /\ Fail(ErrByteOrder)
            /\ pos' = pos + Len(bo)
            /\ UNCHANGED order
       ELSE /\ order' = ByteOrderOf(bo)
            /\ pos' = pos + 2
            /\ pc' = "d_magic"
            /\ UNCHANGED <<ret, failed>>
    /\ UNCHANGED <<input, ctl, fpos, buf, offset0, walk, dir, ioErr>>

\* check for special tiff marker
D_Magic ==
    /\ entry = "Decode" /\ pc = "d_magic"
    /\ LET sp == Bytes(buf, pos, 2) IN
       IF Len(sp) < 2 \/ Int16(U16(sp, order)) # Magic
       THEN /\ Return(NilTiff, ErrMagic)
            /\ Fail(ErrMagic)
            /\ pos' = pos + Len(sp)
       ELSE /\ pos' = pos + 2
            /\ pc' = "d_first"
            /\ UNCHANGED <<ret, failed>>
    /\ UNCHANGED <<input, ctl, fpos, buf, hdr, walk, dir, ioErr>>

\* load offset to first IFD
D_First ==
    /\ entry = "Decode" /\ pc = "d_first"
    /\ LET b == Bytes(buf, pos, 4) IN
       IF Len(b) < 4
       THEN /\ Return(NilTiff, ErrFirst)
            /\ Fail(ErrFirst)
            /\ pos' = pos + Len(b)
            /\ UNCHANGED <<offset, prev>>
       ELSE /\ offset' = U32(b, order)
            /\ prev' = U32(b, order)
            /\ pos' = pos + 4
            /\ pc' = "d_loop"
            /\ UNCHANGED <<ret, failed>>
    /\ UNCHANGED <<input, ctl, fpos, buf, hdr, dirs, dir, ioErr>>

\* A variant in which the seek leaves the position where it is.
SeekStays(off, cur) == cur

\* buf.Seek(int64(offset), 0): the new position; an offset is never negative,
\* so the seek never fails.
SeekPos(off, cur) == off

\* for offset != 0 { seek to offset; if buf.Len() == 0 ...; DecodeDir(buf, t.Order, 0)
D_Loop ==
    /\ entry = "Decode" /\ pc = "d_loop"
    /\ offset # 0 => Len(dirs) < MaxIter
    /\ IF offset = 0
       THEN /\ Return([isNil |-> FALSE, Order |-> order, Dirs |-> dirs], NoErr)
            /\ UNCHANGED <<pos, dir, failed>>
       ELSE /\ pos' = SeekPos(offset, pos)
            /\ IF pos' >= BufLen(buf)
               THEN /\ Return(NilTiff, ErrSeekEOF)
                    /\ Fail(ErrSeekEOF)
                    /\ UNCHANGED dir
               ELSE /\ pc' = "dir_count"
                    /\ base' = 0
                    /\ nTags' = 0 /\ n' = 0 /\ tags' = <<>> /\ dres' = NoDirRes
                    /\ UNCHANGED <<ret, failed>>
    /\ UNCHANGED <<input, ctl, fpos, buf, hdr, walk, ioErr>>

\* if offset == prev
CycleGuard(next, pr) == next = pr

\* A variant in which prev is never advanced.
PrevStays(next, pr) == pr

\* prev = offset
NextPrev(next, pr) == next

\* d, offset, err = DecodeDir(...); the error, the cycle guard, the append
D_After ==
    /\ entry = "Decode" /\ pc = "dir_ret"
    /\ offset' = dres.offset
    /\ IF dres.err # NoErr
       THEN /\ Return(NilTiff, dres.err)
            /\ UNCHANGED <<prev, dirs, failed>>
       ELSE IF CycleGuard(dres.offset, prev)
       THEN /\ Return(NilTiff, ErrRecursive)
            /\ Fail(ErrRecursive)
            /\ UNCHANGED <<prev, dirs>>
       ELSE /\ prev' = NextPrev(dres.offset, prev)
            /\ dirs' = Record(dirs, dres.d)
            /\ pc' = "d_loop"
            /\ UNCHANGED <<ret, failed>>
    /\ UNCHANGED <<input, ctl, src, hdr, dir, ioErr>>

\* -------------------------------------------------------------- DecodeDir

\* var nTags int16; binary.Read(r, order, &nTags)
TagCount(b, o) == Int16(U16(b, o))

\* return nil, 0, err
DirFail(d, e) == [d |-> NilDir, offset |-> 0, err |-> e]

\* get num of tags in ifd
Dir_Count ==
    /\ pc = "dir_count"
    /\ LET b == Bytes(buf, pos, 2) IN
       IF Len(b) < 2
       THEN /\ dres' = DirFail([isNil |-> FALSE, Tags |-> tags], ErrTagCount)
            /\ Fail(ErrTagCount)
            /\ pos' = pos + Len(b)
            /\ pc' = "dir_ret"
            /\ UNCHANGED nTags
       ELSE /\ nTags' = TagCount(b, order)
            /\ pos' = pos + 2
            /\ pc' = "dir_tag"
            /\ UNCHANGED <<dres, failed>>
    /\ UNCHANGED <<input, ctl, fpos, buf, hdr, walk, base, n, tags, ret, ioErr>>

\* A variant in which the tag loop goes on after a failed tag.
TagErrIgnored(e) == FALSE

\* if err != nil { return nil, 0, err } in the tag loop
TagLoopStops(e) == e # NoErr

\* for n := 0; n < int(nTags); n++ { t, err := DecodeTag(r, order, position_offset)
Dir_Tag ==
    /\ pc = "dir_tag"
    /\ n < nTags
    /\ LET r == DecodeTag(buf, pos, order, base) IN
       /\ pos' = r.pos
       /\ IF r.err # NoErr THEN Fail(r.err) ELSE UNCHANGED failed
       /\ IF TagLoopStops(r.err)
          THEN /\ dres' = DirFail([isNil |-> FALSE, Tags |-> tags], r.err)
               /\ pc' = "dir_ret"
               /\ UNCHANGED <<n, tags>>
          ELSE /\ tags' = Append(tags, r.tag)
               /\ n' = n + 1
               /\ UNCHANGED <<dres, pc>>
    /\ UNCHANGED <<input, ctl, fpos, buf, hdr, walk, base, nTags, ret, ioErr>>

\* get offset to next ifd; return d, uint32(offset), nil
Dir_Next ==
    /\ pc = "dir_tag"
    /\ n >= nTags
    /\ LET b == Bytes(buf, pos, 4) IN
       IF Len(b) < 4
       THEN /\ dres' = DirFail([isNil |-> FALSE, Tags |-> tags], ErrNextOffset)
            /\ Fail(ErrNextOffset)
            /\ pos' = pos + Len(b)
       ELSE /\ dres' = [d |-> [isNil |-> FALSE, Tags |-> tags],
                        offset |-> U32(b, order), err |-> NoErr]
            /\ pos' = pos + 4
            /\ UNCHANGED failed
    /\ pc' = "dir_ret"
    /\ UNCHANGED <<input, ctl, fpos, buf, hdr, walk, base, nTags, n, tags, ret, ioErr>>

\* -------------------------------------------------------------- DecodeFile

\* read byte order
F_ByteOrder ==
    /\ entry = "DecodeFile" /\ pc = "start"
    /\ LET r == FileRead(fpos, 2) IN
       /\ fpos' = fpos + Len(r.bytes)
       /\ ioErr' = (ioErr \/ r.io)
       /\ IF ~r.ok \/ ByteOrderOf(r.bytes) = Nil
          THEN /\ Return(NilTiff, ErrByteOrder)
               /\ Fail(ErrByteOrder)
               /\ UNCHANGED order
          ELSE /\ order' = ByteOrderOf(r.bytes)
               /\ pc' = "f_magic"
               /\ UNCHANGED <<ret, failed>>
    /\ UNCHANGED <<input, ctl, buf, pos, offset0, walk, dir>>

\* check for special tiff marker
F_Magic ==
    /\ entry = "DecodeFile" /\ pc = "f_magic"
    /\ LET r == FileRead(fpos, 2) IN
       /\ fpos' = fpos + Len(r.bytes)
       /\ ioErr' = (ioErr \/ r.io)
       /\ IF ~r.ok
          THEN Return(NilTiff, ErrReadMagic) /\ Fail(ErrReadMagic)
          ELSE IF Int16(U16(r.bytes, order)) # Magic
          THEN Return(NilTiff, ErrMagic) /\ Fail(ErrMagic)
          ELSE pc' = "f_first" /\ UNCHANGED <<ret, failed>>
    /\ UNCHANGED <<input, ctl, buf, pos, hdr, walk, dir>>

\* load offset to first IFD
F_First ==
    /\ entry = "DecodeFile" /\ pc = "f_first"
    /\ LET r == FileRead(fpos, 4) IN
       /\ fpos' = fpos + Len(r.bytes)
       /\ ioErr' = (ioErr \/ r.io)
       /\ IF ~r.ok
          THEN /\ Return(NilTiff, ErrReadFirst)
               /\ Fail(ErrReadFirst)
               /\ UNCHANGED offset0
          ELSE /\ offset0' = U32(r.bytes, order)
               /\ pc' = "f_seek"
               /\ UNCHANGED <<ret, failed>>
    /\ UNCHANGED <<input, ctl, buf, pos, order, walk, dir>>

\* seek to offset
F_Seek ==
    /\ entry = "DecodeFile" /\ pc = "f_seek"
    /\ IF seekFail
       THEN /\ Return(NilTiff, ErrSeek)
            /\ Fail(ErrSeek) /\ ioErr' = TRUE
            /\ UNCHANGED fpos
       ELSE /\ fpos' = offset0
            /\ pc' = "f_bulk"
            /\ UNCHANGED <<ret, ghost>>
    /\ UNCHANGED <<input, ctl, buf, pos, hdr, walk, dir>>

\* data, err := ioutil.ReadAll(f); buf := bytes.NewReader(data): err is
\* overwritten by the first DecodeDir before anything reads it.
F_ReadAll ==
    /\ entry = "DecodeFile" /\ pc = "f_bulk"
    /\ LET r == FileReadAll(fpos) IN
       /\ buf' = Lit(r.bytes)
       /\ fpos' = fpos + Len(r.bytes)
       /\ ioErr' = (ioErr \/ r.io)
    /\ pos' = 0
    /\ prev' = offset0
    /\ offset' = offset0
    /\ pc' = "f_loop"
    /\ UNCHANGED <<input, ctl, hdr, dirs, dir, ret, failed>>

\* A variant in which DecodeFile passes position_offset 0, as Decode does.
WindowBaseZero(off0) == 0

\* DecodeDir's position_offset in DecodeFile: offset0
WindowBase(off0) == off0

\* for next_offset != 0 { DecodeDir(buf, t.Order, offset0)
F_Loop ==
    /\ entry = "DecodeFile" /\ pc = "f_loop"
    /\ offset # 0 => Len(dirs) < MaxIter
    /\ IF offset = 0
       THEN /\ Return([isNil |-> FALSE, Order |-> order, Dirs |-> dirs], NoErr)
            /\ UNCHANGED dir
       ELSE /\ pc' = "dir_count"
            /\ base' = WindowBase(offset0)
            /\ nTags' = 0 /\ n' = 0 /\ tags' = <<>> /\ dres' = NoDirRes
            /\ UNCHANGED ret
    /\ UNCHANGED <<input, ctl, src, hdr, walk, ghost>>

\* d, next_offset, err = DecodeDir(...); the error, the cycle guard, the append
F_After ==
    /\ entry = "DecodeFile" /\ pc = "dir_ret"
    /\ offset' = dres.offset
    /\ IF dres.err # NoErr
       THEN /\ Return(NilTiff, dres.err)
            /\ UNCHANGED <<prev, dirs, failed>>
       ELSE IF CycleGuard(dres.offset, prev)
       THEN /\ Return(NilTiff, ErrRecursive)
            /\ Fail(ErrRecursive)
            /\ UNCHANGED <<prev, dirs>>
       ELSE /\ prev' = NextPrev(dres.offset, prev)
            /\ dirs' = Record(dirs, dres.d)
            /\ pc' = "f_loop"
            /\ UNCHANGED <<ret, failed>>
    /\ UNCHANGED <<input, ctl, src, hdr, dir, ioErr>>

\* ---------------------------------------------------------- specifications

Next ==
    \/ Call
    \/ D_ReadAll \/ D_ByteOrder \/ D_Magic \/ D_First \/ D_Loop \/ D_After
    \/ F_ByteOrder \/ F_Magic \/ F_First \/ F_Seek \/ F_ReadAll \/ F_Loop \/ F_After
    \/ Dir_Count \/ Dir_Tag \/ Dir_Next

Spec == Init /\ [][Next]_vars

\* The same calls without the record of t.Dirs, which the walk only appends to:
\* what is left of a call's state is finite.  A call is sequential code that
\* runs its next statement, so a step that can be taken is taken.
InitLive == \E inp \in Inputs : Init0(inp, <<"DecodeFile", "Decode">>, Nil, "idle", FALSE)

SpecLive == InitLive /\ [][Next]_vars /\ WF_vars(Next)

\* ------------------------------------------------- DecodeDir on its own

\* Entry j of the many-entry source, decoded.
ManyTag(j) == [Id |-> 256, Type |-> 3, Count |-> 1, Vals |-> <<j % 128>>]

\* A call of DecodeDir: the source, its read position, position_offset, and
\* what the source holds at that position: count entries (tags, or ManyTag for
\* the many-entry source), the next-directory offset, and whether all of it is
\* there (whole).
DirOfImg(i, c, windowed) ==
    LET at == DirOff(i, 1)
        all == SubSeq(Serialize(i), 1, c)
    IN  [order |-> i.order,
         many |-> FALSE,
         source |-> Lit(IF windowed THEN SubSeq(all, at + 1, Len(all)) ELSE all),
         pos |-> IF windowed THEN 0 ELSE at,
         base |-> IF windowed THEN at ELSE 0,
         count |-> Len(i.dirs[1].tags),
         tags |-> i.dirs[1].tags,
         next |-> TargetOff(i, i.dirs[1].next),
         whole |-> /\ c = ImgLen(i)
                   /\ (windowed /\ i.place = "before") => DirBlobs(i.dirs[1]) = 0]

DirOfMany(c, nx, o) ==
    [order |-> o, many |-> TRUE, source |-> Many(c, nx, o), pos |-> 0, base |-> 0,
     count |-> c, tags |-> <<>>, next |-> nx, whole |-> TRUE]

\* Directories of up to MaxTags entries, whole and cut at every length, read in
\* the whole stream and in the window that starts at the directory; and
\* directories whose tag count has its top bit set.
DirInputs ==
    UNION { { DirOfImg(i, c, w) : c \in DirOff(i, 1)..ImgLen(i), w \in BOOLEAN } :
            i \in ImgsOf(1) }
    \cup { DirOfMany(c, nx, o) : c \in {2 ^ 15, 2 ^ 16 - 1}, nx \in {0, 8}, o \in {"LE", "BE"} }

InitDir ==
    \E inp \in DirInputs :
        /\ data = <<>>
        /\ img = [order |-> inp.order, many |-> inp.many, count |-> inp.count,
                  tags |-> inp.tags, next |-> inp.next, whole |-> inp.whole,
                  pos0 |-> inp.pos]
        /\ failAt = NoFail /\ seekFail = FALSE /\ track = TRUE
        /\ calls = <<>> /\ entry = "DecodeDir" /\ pc = "dir_count"
        /\ order = inp.order /\ offset0 = 0
        /\ fpos = 0 /\ buf = inp.source /\ pos = inp.pos
        /\ offset = 0 /\ prev = 0 /\ dirs = <<>>
        /\ base = inp.base /\ nTags = 0 /\ n = 0 /\ tags = <<>> /\ dres = NoDirRes
        /\ ret = [x \in Entries |-> NotCalled]
        /\ failed = NoErr /\ ioErr = FALSE

\* DecodeDir returns to its caller.
Dir_Return ==
    /\ entry = "DecodeDir" /\ pc = "dir_ret"
    /\ ret' = [ret EXCEPT ![entry] = [done |-> TRUE, tiff |-> NilTiff, err |-> dres.err]]
    /\ pc' = "idle"
    /\ UNCHANGED <<input, ctl, src, hdr, walk, dir, ghost>>

NextDir == Dir_Count \/ Dir_Tag \/ Dir_Next \/ Dir_Return

SpecDir == InitDir /\ [][NextDir]_vars

\* ------------------------------------------------- what a stream encodes

\* The stream is whole and its source does not fail.
Clean == failAt = NoFail /\ ~seekFail /\ Len(data) = ImgLen(img)

ValidHeader == img.marker = MarkerOf(img.order) /\ img.magic = Magic

\* The directories met from link t on, following at most k links.
RECURSIVE Walk(_, _, _)
Walk(i, t, k) ==
    IF t = 0 \/ t > Len(i.dirs) \/ k = 0 THEN <<>>
    ELSE <<t>> \o Walk(i, i.dirs[t].next, k - 1)

\* The chain from the first-IFD offset, cut after one more directory than the
\* image has: a chain that long revisits a directory.
Chain == Walk(img, img.first, Len(img.dirs) + 1)

\* The chain visits pairwise distinct directories and ends with next-offset 0.
WellFormedChain ==
    /\ Len(Chain) \in 1..Len(img.dirs)
    /\ img.dirs[Chain[Len(Chain)]].next = 0

\* Two decoded tags are the same: id, type, count, and then the values.
SameTag(a, b) ==
    /\ a.Id = b.Id /\ a.Type = b.Type /\ a.Count = b.Count
    /\ Len(a.Vals) = Len(b.Vals)
    /\ a.Vals = b.Vals

SameTags(as, bs) ==
    /\ Len(as) = Len(bs)
    /\ \A j \in 1..Len(as) : SameTag(as[j], bs[j])

SameDirs(ds, es) ==
    /\ Len(ds) = Len(es)
    /\ \A k \in 1..Len(ds) : ~ds[k].isNil /\ ~es[k].isNil /\ SameTags(ds[k].Tags, es[k].Tags)

\* Directory k of the image as a decoder returns it.
ImgDir(k) == [isNil |-> FALSE, Tags |-> img.dirs[k].tags]

Done(e) == ret[e].done
Ok(e) == ret[e].done /\ ret[e].err = NoErr /\ ~ret[e].tiff.isNil
Failed(e) == ret[e].done /\ ret[e].err # NoErr /\ ret[e].tiff.isNil

\* --------------------------------------------------------------- claims

\* C2: a stream with a valid header whose chain of next-directory offsets
\* visits n >= 1 pairwise distinct, well-formed directories and ends with
\* next-offset 0 makes Decode succeed with exactly those n directories, in chain
\* order, each with its tags in on-disk order.
C2_ChainDecoded ==
    (Done("Decode") /\ Clean /\ ValidHeader /\ WellFormedChain)
        => /\ Ok("Decode")
           /\ ret["Decode"].tiff.Order = img.order
           /\ SameDirs(ret["Decode"].tiff.Dirs, [i \in 1..Len(Chain) |-> ImgDir(Chain[i])])

\* C2 witness: Decode has returned two directories that the chain visits against
\* their order in the stream, the first one with tags.
C2_Witness ==
    /\ Ok("Decode") /\ Clean /\ ValidHeader /\ WellFormedChain
    /\ Chain = <<2, 1>>
    /\ Len(ret["Decode"].tiff.Dirs) = 2
    /\ Len(ret["Decode"].tiff.Dirs[1].Tags) = 2

\* The chain reaches a directory whose next-directory offset is its own offset.
SelfCycleOnChain == \E i \in 1..Len(Chain) : img.dirs[Chain[i]].next = Chain[i]

\* DecodeDir has just returned a directory whose next-directory offset is the
\* offset the walk had for that directory: the one Decode sought to, the one
\* DecodeFile was given by the header or by the directory before.
SelfCycleDecoded ==
    /\ pc = "dir_ret" /\ entry \in {"Decode", "DecodeFile"}
    /\ dres.err = NoErr
    /\ dres.offset = offset

\* C1: a directory whose next-directory offset equals its own offset makes
\* Decode return the "recursive IFD" error and no Tiff, for every stream with a
\* valid header whose chain reaches such a directory; DecodeFile does the same
\* when the next-offset field it decodes equals the offset that announced the
\* directory.
C1_SelfCycleRejected ==
    /\ []((Done("Decode") /\ Clean /\ ValidHeader /\ SelfCycleOnChain)
            => (Failed("Decode") /\ ret["Decode"].err = ErrRecursive))
    /\ [][SelfCycleDecoded
            => (ret'[entry].done /\ ret'[entry].tiff.isNil
                /\ ret'[entry].err = ErrRecursive)]_vars

\* C1 witness: both entry points have rejected a stream whose second directory
\* links to itself.
C1_Witness ==
    /\ Clean /\ ValidHeader /\ Chain = <<1, 2, 2>>
    /\ Failed("Decode") /\ ret["Decode"].err = ErrRecursive
    /\ Failed("DecodeFile") /\ ret["DecodeFile"].err = ErrRecursive
    /\ Len(dirs) = 1

\* The chain is one directory that ends it.
SingleDir == Len(Chain) = 1 /\ img.dirs[Chain[1]].next = 0

\* Every out-of-line value of directory k lies at or after offset off.
ValuesFrom(k, off) ==
    \A j \in 1..Len(img.dirs[k].tags) :
        BlobSize(img.dirs[k].tags[j]) > 0 => BlobOff(img, k, j) >= off

\* C3: on a well-formed single-directory stream whose out-of-line values all
\* lie at or after the first directory's offset, Decode and DecodeFile both
\* succeed and return the same byte order and the same ordered tag list.
C3_FastEqualsCanonical ==
    (Done("Decode") /\ Done("DecodeFile") /\ Clean /\ ValidHeader /\ SingleDir
        /\ ValuesFrom(Chain[1], DirOff(img, Chain[1])))
        => /\ Ok("Decode") /\ Ok("DecodeFile")
           /\ ret["Decode"].tiff.Order = ret["DecodeFile"].tiff.Order
           /\ SameDirs(ret["Decode"].tiff.Dirs, ret["DecodeFile"].tiff.Dirs)

\* C3 witness: both have decoded a directory that is not the first of the
\* stream and holds an out-of-line value.
C3_Witness ==
    /\ Ok("Decode") /\ Ok("DecodeFile") /\ Clean /\ ValidHeader /\ SingleDir
    /\ Chain = <<2>>
    /\ ValuesFrom(2, DirOff(img, 2))
    /\ \E j \in 1..Len(img.dirs[2].tags) : BlobSize(img.dirs[2].tags[j]) > 0
    /\ Len(ret["DecodeFile"].tiff.Dirs) = 1

\* The chain's directories lie one after the other in the stream, as DecodeFile
\* reads them.
Contiguous == \A i \in 1..Len(Chain) : Chain[i] = Chain[1] + i - 1

\* Tag j of the i-th directory of the chain stores its value before the first
\* directory of the chain.
ValueBeforeFirst(i, j) ==
    /\ i \in 1..Len(Chain) /\ j \in 1..Len(img.dirs[Chain[i]].tags)
    /\ BlobSize(img.dirs[Chain[i]].tags[j]) > 0
    /\ BlobOff(img, Chain[i], j) < DirOff(img, Chain[1])

\* C4: on an otherwise well-formed stream in which a tag's out-of-line value is
\* stored before the first directory's offset, DecodeFile returns an error and no
\* Tiff, and Decode on the same bytes succeeds and returns that tag's value.
C4_ValueBeforeWindow ==
    \A i \in 1..MaxDirs, j \in 1..MaxTags :
        (Done("Decode") /\ Done("DecodeFile") /\ Clean /\ ValidHeader
            /\ WellFormedChain /\ Contiguous /\ ValueBeforeFirst(i, j))
            => /\ Failed("DecodeFile")
               /\ Ok("Decode")
               /\ Len(ret["Decode"].tiff.Dirs) >= i
               /\ Len(ret["Decode"].tiff.Dirs[i].Tags) >= j
               /\ SameTag(ret["Decode"].tiff.Dirs[i].Tags[j], img.dirs[Chain[i]].tags[j])

\* C4 witness: DecodeFile has failed on the value of the first directory's
\* second tag, which Decode has returned.
C4_Witness ==
    /\ Done("Decode") /\ Done("DecodeFile") /\ Clean /\ ValidHeader
    /\ WellFormedChain /\ Contiguous /\ ValueBeforeFirst(1, 2)
    /\ ret["DecodeFile"].err = ErrTagValue
    /\ Ok("Decode")

\* The stream does not start with "II" or "MM".
BadMarker == Len(data) < 2 \/ SubSeq(data, 1, 2) \notin {<<73, 73>>, <<77, 77>>}

\* C5: a stream whose first two bytes are not "II" and not "MM", whatever
\* follows and however short it is, makes Decode (given the stream by its
\* reader) and DecodeFile fail with the byte-order error and with no other; no
\* directory is decoded.
C5_BadMarkerIsHeaderError ==
    /\ (Done("DecodeFile") /\ BadMarker)
            => (Failed("DecodeFile") /\ ret["DecodeFile"].err = ErrByteOrder)
    /\ (Done("Decode") /\ BadMarker /\ failAt = NoFail)
            => (Failed("Decode") /\ ret["Decode"].err = ErrByteOrder)
    /\ BadMarker => (dirs = <<>> /\ tags = <<>> /\ pc \notin {"dir_count", "dir_tag", "dir_ret"})

\* C5 witness: both have failed on a stream that is whole but for its marker.
C5_Witness ==
    /\ Done("Decode") /\ Done("DecodeFile") /\ failAt = NoFail
    /\ Len(data) = ImgLen(img) /\ img.magic = Magic
    /\ SubSeq(data, 1, 2) = <<73, 77>>
    /\ ret["Decode"].err = ErrByteOrder /\ ret["DecodeFile"].err = ErrByteOrder

\* A step of the running call has failed and DecodeDir has yet to hand the
\* failure to its caller.
FailurePending == failed # NoErr /\ pc # "idle"

\* C6: an entry point, and DecodeDir, that returns an error returns no result
\* with it; the error is the first failure the walk met, and after a failed step
\* nothing more is read, decoded or collected: the call only returns.
C6_FirstErrorIsFatal ==
    /\ [](\A e \in {"Decode", "DecodeFile"} :
            (ret[e].done /\ ret[e].err # NoErr) => ret[e].tiff.isNil)
    /\ []((pc = "idle" /\ entry \in {"Decode", "DecodeFile"})
            => ret[entry].err = failed)
    /\ [](pc = "dir_ret" => (dres.err = failed /\ (dres.err # NoErr => dres.d.isNil)))
    /\ [][FailurePending
            => (pc' = "idle" /\ ret'[entry].err = failed
                /\ UNCHANGED <<src, dirs, tags, n, failed>>)]_vars

\* C6 witness: Decode has returned the failure of a directory's second tag and
\* nothing of the tag decoded before it.
C6_Witness ==
    /\ pc = "idle" /\ entry = "Decode"
    /\ Failed("Decode") /\ ret["Decode"].err = ErrTagValue
    /\ failed = ErrTagValue
    /\ Len(tags) = 1

\* The chain returns to a directory right after the one that follows it:
\* A -> B -> A with A # B, A being the i-th directory of the chain.
TwoCycleAt(i) ==
    /\ i + 2 <= Len(Chain)
    /\ Chain[i + 2] = Chain[i]
    /\ Chain[i + 1] # Chain[i]

\* C8: when the next-directory offset Decode decodes equals the offset processed
\* in the iteration before (A -> B -> A), Decode fails with the "recursive IFD"
\* error and does not decode the directory at A a second time.
C8_TwoCycleRejected ==
    \A i \in 1..MaxDirs :
        (entry = "Decode" /\ Clean /\ ValidHeader /\ TwoCycleAt(i))
            => /\ Len(dirs) <= i + 1
               /\ Done("Decode") => ret["Decode"].err = ErrRecursive

\* C9: every failure of a read or a seek on the source makes the call return an
\* error; DecodeFile whose bulk read fails decodes nothing from what was read.
C9_SourceFailureIsError ==
    (pc = "idle" /\ entry \in {"Decode", "DecodeFile"} /\ ioErr)
        => Failed(entry)

\* C7: every call of Decode and of DecodeFile returns, whatever the
\* next-directory offsets hold, chains that revisit a directory included.
C7_EveryCallReturns == <>(calls = <<>> /\ pc = "idle")

\* C10: for every value c of the 2-byte tag-count field, DecodeDir on a source
\* that holds c well-formed entries and a next-directory offset returns a
\* directory of exactly those c tags, in their order, and that offset; a tag
\* that fails to decode is the failure DecodeDir returns, with no directory, no
\* later tag decoded and the next-directory offset unread.
C10_CountTagsDecoded ==
    /\ (Done("DecodeDir") /\ img.whole)
            => /\ dres.err = NoErr /\ ~dres.d.isNil
               /\ Len(dres.d.Tags) = img.count
               /\ dres.offset = img.next
               /\ \A j \in 1..Len(dres.d.Tags) :
                    SameTag(dres.d.Tags[j], IF img.many THEN ManyTag(j) ELSE img.tags[j])
    /\ (pc = "dir_ret" /\ failed \in {ErrTag, ErrTagValue})
            => /\ dres.err = failed /\ dres.d.isNil
               /\ Len(tags) = n /\ n < img.count
               /\ pos <= img.pos0 + 2 + 12 * (n + 1)

====
